------------------------------ MODULE Spec2Model ------------------------------
(***************************************************************************)
(* Model of the EA chatbot backend (poc-backend): the conversation store   *)
(* (state/conversations.py), the model manager with its retrieval step and *)
(* generation calls (llm/runtime.py) and the HTTP handlers (server.py).    *)
(*                                                                         *)
(* Text is a sequence of one-character strings, so that the string         *)
(* operations of the code (strip, lower, split, concatenation, truthiness) *)
(* are computed and not assumed.  An Optional[str] that the code only      *)
(* tests for truthiness is the empty text when it is None or "".           *)
(***************************************************************************)
EXTENDS Integers, Sequences, FiniteSets, TLC

(***************************************************************************)
(* Bounds of the model.                                                    *)
(***************************************************************************)
\* appends of one run of the conversation-store specification
MaxAppends == 5
\* largest max_turns argument tried by the conversation-store specification
MaxTurnsBound == 2
\* /chat and /chat/stream requests of one run of the server specification
MaxRequests == 1
\* direct retrieve_augmentation calls of one run of the retrieval specification
MaxCalls == 2

(***************************************************************************)
(* Text helpers (Python str semantics on the characters the model uses).   *)
(***************************************************************************)
NoText == << >>

\* bool(s) of a str (or of None, modelled as the empty text)
Truthy(s) == s # << >>

\* str.isspace of one character
IsSpace(c) == c \in {" ", "\n", "\t"}

\* list/str slicing s[i:] with Python's index rules (negative i counts from
\* the end and is clamped; -0 is 0, so s[-0:] is the whole sequence)
PySliceFrom(s, i) ==
  LET n == Len(s)
      start == IF i < 0 THEN (IF n + i < 0 THEN 0 ELSE n + i)
                        ELSE (IF i > n THEN n ELSE i)
  IN  SubSeq(s, start + 1, n)

\* list/str slicing s[:j] for j >= 0
PySliceTo(s, j) == SubSeq(s, 1, IF j > Len(s) THEN Len(s) ELSE j)

\* str.lower on one character
Lower(c) ==
  LET up == <<"A", "B", "C", "D", "E", "F", "G", "H", "I", "J", "K", "L", "M",
              "N", "O", "P", "Q", "R", "S", "T", "U", "V", "W", "X", "Y", "Z">>
      lo == <<"a", "b", "c", "d", "e", "f", "g", "h", "i", "j", "k", "l", "m",
              "n", "o", "p", "q", "r", "s", "t", "u", "v", "w", "x", "y", "z">>
  IN  IF \E i \in 1..26 : up[i] = c THEN lo[CHOOSE i \in 1..26 : up[i] = c] ELSE c

\* str.lower
LowerText(s) == [i \in 1..Len(s) |-> Lower(s[i])]

\* s.strip(chars): drop leading and trailing characters that are in chars
RECURSIVE LStripChars(_, _)
LStripChars(s, chars) ==
  IF s # << >> /\ Head(s) \in chars THEN LStripChars(Tail(s), chars) ELSE s

RECURSIVE RStripChars(_, _)
RStripChars(s, chars) ==
  IF s # << >> /\ s[Len(s)] \in chars
    THEN RStripChars(SubSeq(s, 1, Len(s) - 1), chars) ELSE s

StripChars(s, chars) == RStripChars(LStripChars(s, chars), chars)

\* s.strip()
Strip(s) == StripChars(s, {" ", "\n", "\t"})

\* s.replace(a, b) for single characters a, b
ReplaceChar(s, a, b) == [i \in 1..Len(s) |-> IF s[i] = a THEN b ELSE s[i]]

\* s.split(): the maximal runs of non-whitespace characters, in order
RECURSIVE SplitFrom(_, _, _)
SplitFrom(s, cur, acc) ==
  IF s = << >>
    THEN (IF cur = << >> THEN acc ELSE Append(acc, cur))
    ELSE IF IsSpace(Head(s))
      THEN SplitFrom(Tail(s), << >>, IF cur = << >> THEN acc ELSE Append(acc, cur))
      ELSE SplitFrom(Tail(s), Append(cur, Head(s)), acc)

PySplit(s) == SplitFrom(s, << >>, << >>)

\* needle in haystack (substring test; the empty needle is in every text)
Contains(haystack, needle) ==
  \E i \in 0..(Len(haystack) - Len(needle)) :
    SubSeq(haystack, i + 1, i + Len(needle)) = needle

\* sep.join(parts)
RECURSIVE Join(_, _)
Join(parts, sep) ==
  IF parts = << >> THEN << >>
  ELSE IF Len(parts) = 1 THEN parts[1]
  ELSE parts[1] \o sep \o Join(Tail(parts), sep)

\* the Python value None (and the Cypher value null) where a text may be missing
None == << "None" >>

\* x or y, for an x that is a str or None
OrElse(x, y) == IF x # None /\ x # << >> THEN x ELSE y

\* the decimal digits, for contents that tell messages apart
DigitText(n) == << <<"0", "1", "2", "3", "4", "5", "6", "7", "8", "9">>[(n % 10) + 1] >>

(***************************************************************************)
(* state/conversations.py                                                  *)
(***************************************************************************)
Roles == {"system", "user", "assistant"}

\* conversation identifiers a client can send or uuid4 can produce
Cids == {"c1", "c2"}

Msg(role, content) == [role |-> role, content |-> content]

\* [m for m in msgs if m["role"] == "system"]
SysOf(msgs) == SelectSeq(msgs, LAMBDA m : m.role = "system")

\* [m for m in msgs if m["role"] in ("user", "assistant")]
UaOf(msgs) == SelectSeq(msgs, LAMBDA m : m.role \in {"user", "assistant"})

\* ua[-max_turns*2:]
LastTurns(ua, max_turns) == PySliceFrom(ua, -(max_turns * 2))

\* trimmed = sys[:1] + ua[-max_turns*2:]
Trimmed(msgs, max_turns) ==
  PySliceTo(SysOf(msgs), 1) \o LastTurns(UaOf(msgs), max_turns)

\* _CONV.get(conversation_id, [])
get_messages(conv, cid) == IF cid \in DOMAIN conv THEN conv[cid] ELSE << >>

\* the dict after d[key] = value
DictSet(d, key, value) ==
  [k \in (DOMAIN d) \cup {key} |-> IF k = key THEN value ELSE d[k]]

\* the dict _CONV after new_conversation(system_message) returned cid
new_conversation(conv, cid, system_message) ==
  DictSet(conv, cid,
          IF Truthy(system_message) THEN << Msg("system", system_message) >>
                                    ELSE << >>)

\* the dict _CONV after append(conversation_id, role, content, max_turns)
append(conv, cid, role, content, max_turns) ==
  LET msgs == Append(get_messages(conv, cid), Msg(role, content))
  IN  DictSet(conv, cid, Trimmed(msgs, max_turns))

\* the dict _CONV after reset(conversation_id, keep_system)
reset(conv, cid, keep_system) ==
  DictSet(conv, cid,
          IF keep_system THEN PySliceTo(SysOf(get_messages(conv, cid)), 1)
                         ELSE << >>)

\* default of append's max_turns parameter
DefaultMaxTurns == 8

(***************************************************************************)
(* llm/runtime.py -- retrieval (ModelManager.retrieve_augmentation)        *)
(*                                                                         *)
(* The graph store and the embedder are external.  The store holds the     *)
(* nodes DBNodes; which of them the vector index ranks for a query is the  *)
(* store's choice (env.hits, best score first), the keyword query is       *)
(* computed from its Cypher text, and every call to the embedder or to the *)
(* store either answers or raises (env.embedder, env.vector, env.keyword). *)
(***************************************************************************)
Node(id, name, context, text, value) ==
  [id |-> id, name |-> name, context |-> context, text |-> text, value |-> value]

N1 == Node(<<"1">>, <<"R", "o", "l", "e">>, None,
           <<"E", "A", " ", "R", "o", "l", "e", "\n">>, None)
N2 == Node(<<"n", "2">>, None, <<" ", "t", "p">>, None, None)
\* a node without any text: the vector query's WHERE clause drops it
N3 == Node(<<"3">>, None, None, << >>, None)

\* a node whose only text is a short word
N4 == Node(<<"4">>, <<"E", "A">>, None, None, None)

\* the nodes of the store
DBNodes == << N1, N2, N3, N4 >>

\* [n.context, n.text, n.value, n.name]
Fields(n) == << n.context, n.text, n.value, n.name >>

\* Cypher coalesce: the first value that is not null
RECURSIVE Coalesce(_)
Coalesce(fs) ==
  IF fs = << >> THEN None
  ELSE IF Head(fs) # None THEN Head(fs) ELSE Coalesce(Tail(fs))

\* RETURN n { .id, .name, context: coalesce(n.context, n.text, n.value, n.name) }
Project(n) == [id |-> n.id, name |-> n.name, context |-> Coalesce(Fields(n))]

\* params["k"] of the vector query
K == 5
\* LIMIT of the keyword query
KwLimit == 5

\* rows of cypher_vec for the nodes the index ranked: those with a textual
\* field that is neither null nor '', projected, at most k
VectorRows(hits) ==
  LET kept == SelectSeq(hits, LAMBDA n :
                \E i \in 1..4 : Fields(n)[i] # None /\ Fields(n)[i] # << >>)
  IN  PySliceTo([i \in 1..Len(kept) |-> Project(kept[i])], K)

\* rows of cypher_kw: the nodes with a non-null field whose lower case
\* contains kw, projected, at most 5
KeywordRows(db, kw) ==
  LET kept == SelectSeq(db, LAMBDA n :
                \E i \in 1..4 : Fields(n)[i] # None
                                /\ Contains(LowerText(Fields(n)[i]), kw))
  IN  PySliceTo([i \in 1..Len(kept) |-> Project(kept[i])], KwLimit)

TownPlanner == <<"t", "o", "w", "n", " ", "p", "l", "a", "n", "n", "e", "r">>
Punctuation == {".", ",", ":", ";", "!", "?", "(", ")", "[", "]", "\"", "'"}

\* the phrase the keyword fallback searches for
Phrase(query) ==
  LET qlow == LowerText(query)
      split == PySplit(qlow)
      stripped == [i \in 1..Len(split) |-> StripChars(split[i], Punctuation)]
      tokens == SelectSeq(stripped, LAMBDA t : Len(t) >= 4)
  IN  IF Contains(qlow, TownPlanner) THEN TownPlanner
      ELSE IF tokens # << >> THEN tokens[1] ELSE qlow

\* f"[{i}] {name}: {ctx}" of the i-th row
RenderRow(i, r) ==
  LET name == Strip(OrElse(r.name,
                    OrElse(r.id, <<"R", "e", "s", "u", "l", "t", " ">> \o DigitText(i))))
      ctx == ReplaceChar(Strip(OrElse(r.context, << >>)), "\n", " ")
  IN  <<"[">> \o DigitText(i) \o <<"]", " ">> \o name \o <<":", " ">> \o ctx

\* the rendered context: "" without rows, else the rows joined by newlines
Render(rows) == Join([i \in 1..Len(rows) |-> RenderRow(i, rows[i])], <<"\n">>)

\* the fallback condition: if not rows
NeedsFallbackAlways(rows) == TRUE
NeedsFallback(rows) == rows = << >>

\* what one call of retrieve_augmentation(query) does and returns
retrieve_augmentation(configured, query, env) ==
  LET idle == [raised |-> FALSE, fault |-> "none", result |-> NoText,
               embedRuns |-> 0, vecIssued |-> FALSE, vecReturned |-> FALSE,
               vecRows |-> << >>, kwIssued |-> FALSE, kwRows |-> << >>]
      embedded == [idle EXCEPT !.embedRuns = 1]
      searched == [embedded EXCEPT !.vecIssued = TRUE]
  IN  IF ~configured THEN idle
      ELSE IF env.embedder = "raise"
        THEN [embedded EXCEPT !.raised = TRUE, !.fault = "embedder"]
      ELSE IF env.vector = "raise"
        THEN [searched EXCEPT !.raised = TRUE, !.fault = "vector"]
      ELSE
        LET rows == VectorRows(env.hits)
            found == [searched EXCEPT !.vecReturned = TRUE, !.vecRows = rows]
        IN  IF NeedsFallback(rows)
              THEN IF env.keyword = "raise"
                THEN [found EXCEPT !.kwIssued = TRUE, !.raised = TRUE,
                                   !.fault = "keyword"]
                ELSE LET kw == KeywordRows(DBNodes, Phrase(query))
                     IN  [found EXCEPT !.kwIssued = TRUE, !.kwRows = kw,
                                       !.result = Render(kw)]
              ELSE [found EXCEPT !.result = Render(rows)]

\* the answers the embedder and the store can give to one call
HitLists == { << >>, << N3 >>, << N1 >>, << N2, N1 >> }
Envs ==
  [embedder : {"ok", "raise"}, vector : {"ok", "raise"}, hits : HitLists,
   keyword : {"ok", "raise"}]

(***************************************************************************)
(* server.py -- prompt assembly; llm/runtime.py -- template, generation    *)
(***************************************************************************)
\* ModelManager's default system prompt (its wording is not modelled)
DefaultSystemPrompt == <<"B">>

\* "\n\n[CONTEXT]\n"
ContextTag == <<"\n", "\n", "[", "C", "O", "N", "T", "E", "X", "T", "]", "\n">>

\* mm.system_prompt + (f"\n\n[CONTEXT]\n{ctx}" if ctx else "")
SystemContentAlwaysTagged(base, ctx) == base \o ContextTag \o ctx
SystemContent(base, ctx) == base \o (IF Truthy(ctx) THEN ContextTag \o ctx ELSE << >>)

\* default of build_prompt_messages' max_turns parameter
PromptMaxTurns == 6

\* build_prompt_messages(messages, ctx, max_turns), for mm.system_prompt = base
build_prompt_messages_keep_all(base, messages, ctx, max_turns) ==
  << Msg("system", SystemContent(base, ctx)) >> \o PySliceFrom(messages, -(max_turns * 2))
build_prompt_messages(base, messages, ctx, max_turns) ==
  LET sys_msg == Msg("system", SystemContent(base, ctx))
      turns == UaOf(messages)
      trimmed == PySliceFrom(turns, -(max_turns * 2))
  IN  << sys_msg >> \o trimmed

\* build_current_turn_prompt(user_text, ctx), for mm.system_prompt = base
build_current_turn_prompt(base, user_text, ctx) ==
  << Msg("system", SystemContent(base, ctx)), Msg("user", user_text) >>

\* the message list apply_template hands to the tokenizer's chat template
apply_template(base, messages) ==
  IF messages = << >> \/ messages[1].role # "system"
    THEN << Msg("system", base) >> \o messages
    ELSE messages

\* getattr(obj, name, default) on an object given as its attribute dict
getattr(obj, name, default) == IF name \in DOMAIN obj THEN obj[name] ELSE default

\* ModelManager.__init__: the device chosen from what the machine offers
DeviceOf(mps_available, cuda_available) ==
  IF mps_available /\ ~cuda_available THEN "mps"
  ELSE IF cuda_available THEN "cuda" ELSE "cpu"

\* the keyword arguments generate and stream_generate pass to model.generate
\* (temperature and top_p in hundredths); stream_generate adds streamer=streamer
GenerateKwargs(max_new_tokens, temperature, top_p) ==
  [max_new_tokens |-> max_new_tokens, temperature |-> temperature, top_p |-> top_p]

\* whether model.generate(**kwargs) samples: its do_sample argument when one
\* is passed, else the do_sample of the model's generation config
ModelSamples(kwargs, config_do_sample) ==
  IF "do_sample" \in DOMAIN kwargs THEN kwargs["do_sample"] ELSE config_do_sample

VARIABLES
  CONV,            \* _CONV: conversation id -> list of messages
  mm,              \* the ModelManager object's attributes: system_prompt, use_rag
  pc,              \* where the request being handled is
  req,             \* the request being handled
  cid,             \* its conversation id
  ctx,             \* its retrieved context
  prompt_messages, \* its assembled prompt
  rendered,        \* the message list given to the chat template at model invocation
  text,            \* the reply of mm.generate
  resp,            \* the HTTP response: status, reply, SSE frames
  token_gen,       \* the generator mm.stream_generate returned
  thread,          \* the worker thread running model.generate
  queue,           \* the streamer's queue
  plan,            \* the fragments the worker has yet to produce
  device,          \* mm.device
  config_do_sample,\* do_sample of the loaded model's generation config
  modelCall,       \* history: the latest model.generate invocation
  joined,          \* history: thread.join() has returned
  consumed,        \* history: the fragments the consumer took from the queue
  trace,           \* history: the steps taken for the request being handled
  calls,           \* history: the latest two retrieve_augmentation calls
  toggles,         \* history: the latest /rag/toggle request and its response
  ragSeen,         \* history: the toggle history when the request decided on retrieval
  nRequests,       \* history: number of /chat and /chat/stream requests accepted
  uaLog,           \* history: per conversation, the user/assistant messages appended
  lastMaxTurns,    \* history: per conversation, max_turns of the latest append (-1: none)
  nAppends,        \* history: number of direct append calls made
  nCalls,          \* history: number of direct retrieve_augmentation calls made
  lists,           \* the list objects made by the store, by identity
  slot,            \* per conversation, the identity of the list _CONV holds
  th               \* per thread running append: its position and its locals

storeHistory == << uaLog, lastMaxTurns, nAppends, nCalls >>
threadVars == << lists, slot, th >>
requestVars == << pc, req, cid, ctx, prompt_messages, rendered, text, resp, trace,
                  ragSeen, nRequests >>
streamVars == << token_gen, thread, queue, plan, joined, consumed >>
modelVars == << device, config_do_sample, modelCall >>
vars == << CONV, mm, requestVars, streamVars, modelVars, calls, toggles, storeHistory,
          threadVars >>

(***************************************************************************)
(* The state after the modules are loaded (server.py lines 27-54): no      *)
(* conversation, a ModelManager without a use_rag attribute, no request.   *)
(***************************************************************************)
NoCid == ""
NoRequest == [endpoint |-> "none", conversationId |-> NoCid,
              userMessage |-> NoText, system |-> NoText]
NoResponse == [status |-> "none", reply |-> NoText, frames |-> << >>]
NoCall == [method |-> "none"]

\* no append call is running; the store's list objects are not tracked
InitThreads ==
  /\ lists = << >>
  /\ slot = [c \in {} |-> 0]
  /\ th = [t \in {} |-> 0]

InitStore ==
  /\ CONV = [c \in {} |-> << >>]
  /\ InitThreads
  /\ uaLog = [c \in Cids |-> << >>]
  /\ lastMaxTurns = [c \in Cids |-> -1]
  /\ nAppends = 0
  /\ nCalls = 0

InitManager ==
  /\ mm = [system_prompt |-> DefaultSystemPrompt]
  /\ modelCall = NoCall
  /\ calls = << >>
  /\ toggles = << >>

InitRequest ==
  /\ pc = "idle"
  /\ req = NoRequest
  /\ cid = NoCid
  /\ ctx = NoText
  /\ prompt_messages = << >>
  /\ rendered = << >>
  /\ text = NoText
  /\ resp = NoResponse
  /\ trace = << >>
  /\ ragSeen = << >>
  /\ nRequests = 0

InitStream ==
  /\ token_gen = "none"
  /\ thread = "none"
  /\ queue = << >>
  /\ plan = << >>
  /\ joined = FALSE
  /\ consumed = << >>

(***************************************************************************)
(* The conversation store driven directly: any sequence of                 *)
(* new_conversation, append and reset calls.                               *)
(***************************************************************************)
SysText == <<"S">>

InitConv ==
  /\ InitStore /\ InitManager /\ InitRequest /\ InitStream
  /\ device = "cpu"
  /\ config_do_sample = FALSE

ConvNew ==
  \E c \in Cids \ DOMAIN CONV, system_message \in {NoText, SysText} :
    /\ CONV' = new_conversation(CONV, c, system_message)
    /\ UNCHANGED << mm, requestVars, streamVars, modelVars, calls, toggles, storeHistory, threadVars >>

ConvAppend ==
  \E c \in Cids, role \in Roles, max_turns \in 0..MaxTurnsBound :
    /\ nAppends < MaxAppends
    /\ LET content == DigitText(nAppends)
       IN  /\ CONV' = append(CONV, c, role, content, max_turns)
           /\ uaLog' = [uaLog EXCEPT ![c] =
                          IF role = "system" THEN @ ELSE Append(@, Msg(role, content))]
    /\ lastMaxTurns' = [lastMaxTurns EXCEPT ![c] = max_turns]
    /\ nAppends' = nAppends + 1
    /\ UNCHANGED << mm, requestVars, streamVars, modelVars, calls, toggles, nCalls,
                    threadVars >>

ConvReset ==
  \E c \in DOMAIN CONV, keep_system \in BOOLEAN :
    /\ CONV' = reset(CONV, c, keep_system)
    /\ uaLog' = [uaLog EXCEPT ![c] = << >>]
    /\ lastMaxTurns' = [lastMaxTurns EXCEPT ![c] = -1]
    /\ UNCHANGED << mm, requestVars, streamVars, modelVars, calls, toggles, nAppends, nCalls,
                    threadVars >>

NextConv == ConvNew \/ ConvAppend \/ ConvReset

SpecConv == InitConv /\ [][NextConv]_vars

(***************************************************************************)
(* C1 -- Trim invariant.  After any sequence of append calls, with any     *)
(* max_turns >= 0, the stored list of a conversation is at most one system *)
(* message, placed first, followed by at most 2*max_turns user/assistant   *)
(* messages, which are the most recently appended ones in their order.     *)
(***************************************************************************)
IsSuffix(s, t) == Len(s) <= Len(t) /\ s = SubSeq(t, Len(t) - Len(s) + 1, Len(t))

TrimShape(msgs) ==
  /\ Len(SysOf(msgs)) <= 1
  /\ \A i \in 1..Len(msgs) : msgs[i].role = "system" => i = 1

TrimInvariant ==
  \A c \in DOMAIN CONV :
    lastMaxTurns[c] >= 0 =>
      /\ TrimShape(CONV[c])
      /\ Len(UaOf(CONV[c])) <= 2 * lastMaxTurns[c]
      /\ IsSuffix(UaOf(CONV[c]), uaLog[c])

(***************************************************************************)
(* server.py -- the handlers.  One /chat or /chat/stream request is        *)
(* handled at a time, step by step; /rag/toggle may arrive at any moment.  *)
(* Requests carry no params here, so the handlers use ChatParams()'s       *)
(* defaults; the generation calls with other parameters, devices and model *)
(* configs are driven directly in SpecGen.                                 *)
(***************************************************************************)
QA == <<"E", "A", " ", "r", "o", "l", "e">>
QB == <<" ", "e", "a", " ", " ", "R", "o", "l", "e">>
UserMessages == {QA, QB}

\* server.py line 54: mm is built with driver, embedder and vector_index
RagConfigured == TRUE

\* the token the streamer's end() puts on the queue
StopSignal == << "<stop>" >>

\* the fragments model.generate can hand to the streamer in one stream
FragPlans == { << <<"a">> >>, << NoText, <<"b">> >> }

\* the sampling parameters tried, in hundredths
Temperatures == {0, 20, 70, 150}
TopPs == {0, 90, 100}
\* defaults of ChatParams: max_new_tokens, temperature, top_p
DefaultMaxNewTokens == 512
DefaultTemperature == 20
DefaultTopP == 90

\* the model.generate invocation of generate / stream_generate
ModelInvocation(method, temperature, top_p) ==
  LET kwargs == GenerateKwargs(DefaultMaxNewTokens, temperature, top_p)
  IN  [method |-> method, kwargs |-> kwargs,
       samples |-> ModelSamples(kwargs, config_do_sample)]

Init ==
  /\ InitStore /\ InitManager /\ InitRequest /\ InitStream
  /\ device = "cpu"
  /\ config_do_sample = FALSE

\* chat / chat_stream up to conv.append(cid, "user", req.userMessage)
Accept ==
  \E endpoint \in {"chat", "stream"}, conversationId \in {NoCid} \cup Cids,
     userMessage \in UserMessages, system \in {NoText, SysText},
     fresh \in Cids :
    /\ pc = "idle"
    /\ nRequests < MaxRequests
    /\ IF conversationId = NoCid THEN fresh \notin DOMAIN CONV
                                 ELSE fresh = conversationId
    /\ LET created == IF conversationId = NoCid
                        THEN new_conversation(CONV, fresh, system) ELSE CONV
           withSystem == IF Truthy(system) /\ conversationId # NoCid
                           THEN append(created, fresh, "system", system, DefaultMaxTurns)
                           ELSE created
       IN  CONV' = append(withSystem, fresh, "user", userMessage, DefaultMaxTurns)
    /\ cid' = fresh
    /\ req' = [endpoint |-> endpoint, conversationId |-> conversationId,
               userMessage |-> userMessage, system |-> system]
    /\ pc' = "rag"
    /\ trace' = << "append_user" >>
    /\ nRequests' = nRequests + 1
    /\ ctx' = NoText /\ prompt_messages' = << >> /\ rendered' = << >>
    /\ text' = NoText /\ resp' = NoResponse /\ ragSeen' = << >>
    /\ token_gen' = "none" /\ thread' = "none" /\ queue' = << >> /\ plan' = << >>
    /\ joined' = FALSE /\ consumed' = << >>
    /\ modelCall' = NoCall
    /\ UNCHANGED << mm, device, config_do_sample, calls, toggles, storeHistory, threadVars >>

\* use_rag = getattr(mm, "use_rag", True)
UseRagIgnored(obj) == TRUE
UseRag(obj) == getattr(obj, "use_rag", TRUE)

\* ctx = mm.retrieve_augmentation(req.userMessage) if use_rag else ""
Rag ==
  /\ pc = "rag"
  /\ ragSeen' = << toggles >>
  /\ IF UseRag(mm)
       THEN \E env \in Envs :
              LET out == retrieve_augmentation(RagConfigured, req.userMessage, env)
              IN  /\ calls' = PySliceFrom(Append(calls, [query |-> req.userMessage,
                                                          out |-> out]), -2)
                  /\ trace' = Append(trace, "retrieve")
                  /\ IF out.raised
                       THEN /\ pc' = "idle"
                            /\ resp' = [resp EXCEPT !.status = "500"]
                            /\ ctx' = ctx
                       ELSE /\ pc' = "assemble"
                            /\ ctx' = out.result
                            /\ resp' = resp
       ELSE /\ ctx' = NoText
            /\ pc' = "assemble"
            /\ UNCHANGED << calls, trace, resp >>
  /\ UNCHANGED << CONV, mm, req, cid, prompt_messages, rendered, text, nRequests,
                  streamVars, modelVars, toggles, storeHistory, threadVars >>

\* prompt_messages = build_current_turn_prompt(req.userMessage, ctx)
Assemble ==
  /\ pc = "assemble"
  /\ prompt_messages' = build_current_turn_prompt(mm.system_prompt, req.userMessage, ctx)
  /\ pc' = "generate"
  /\ trace' = Append(trace, "assemble")
  /\ UNCHANGED << CONV, mm, req, cid, ctx, rendered, text, resp, ragSeen, nRequests,
                  streamVars, modelVars, calls, toggles, storeHistory, threadVars >>

\* chat: text = mm.generate(prompt_messages, ...), which returns or raises
Generate ==
  /\ pc = "generate" /\ req.endpoint = "chat"
  /\ rendered' = apply_template(mm.system_prompt, prompt_messages)
  /\ modelCall' = ModelInvocation("generate", DefaultTemperature, DefaultTopP)
  /\ trace' = Append(trace, "generate")
  /\ \E outcome \in {"ok", "raise"} :
       IF outcome = "ok"
         THEN /\ text' = <<"r">> \o DigitText(nRequests)
              /\ pc' = "store"
              /\ resp' = resp
         ELSE /\ text' = text
              /\ pc' = "idle"
              /\ resp' = [resp EXCEPT !.status = "500"]
  /\ UNCHANGED << CONV, mm, req, cid, ctx, prompt_messages, ragSeen, nRequests,
                  streamVars, device, config_do_sample, calls, toggles, storeHistory, threadVars >>

\* chat: conv.append(cid, "assistant", text); return ChatResponse(...)
AppendAssistant ==
  /\ pc = "store"
  /\ CONV' = append(CONV, cid, "assistant", text, DefaultMaxTurns)
  /\ resp' = [resp EXCEPT !.status = "200", !.reply = text]
  /\ pc' = "idle"
  /\ trace' = Append(trace, "append_assistant")
  /\ UNCHANGED << mm, req, cid, ctx, prompt_messages, rendered, text, ragSeen,
                  nRequests, streamVars, modelVars, calls, toggles, storeHistory, threadVars >>

\* toggle_rag: mm.use_rag = req.use_rag; return {"rag_enabled": mm.use_rag}
ToggleResult(obj, use_rag) == DictSet(obj, "use_rag", use_rag)

Toggle ==
  \E use_rag \in BOOLEAN :
    /\ mm' = ToggleResult(mm, use_rag)
    /\ toggles' = << [use_rag |-> use_rag, rag_enabled |-> mm'.use_rag] >>
    /\ UNCHANGED << CONV, requestVars, streamVars, modelVars, calls, storeHistory, threadVars >>

(***************************************************************************)
(* /chat/stream: the response is an iteration of sse_wrapper over the      *)
(* generator of mm.stream_generate.  The generator's body starts at the    *)
(* first next(); it starts the worker thread running model.generate, which *)
(* puts fragments on the streamer's queue and, when it ends normally, the  *)
(* stop signal.  The consumer blocks on the queue without a timeout.       *)
(***************************************************************************)
\* f"data: {payload}\n\n"
Frame(payload) == <<"d", "a", "t", "a", ":", " ">> \o payload \o <<"\n", "\n">>

DoneMark == <<"[", "D", "O", "N", "E", "]">>
ErrorMark == <<"[", "E", "R", "R", "O", "R", "]", " ">>
\* str(e) of the exception sse_wrapper catches (its wording is not modelled)
ErrorText == <<"e">>

\* chat_stream from params = ... to return StreamingResponse(sse_wrapper(), ...)
StreamRespond ==
  /\ pc = "generate" /\ req.endpoint = "stream"
  /\ token_gen' = "created"
  /\ resp' = [resp EXCEPT !.status = "200"]
  /\ pc' = "streaming"
  /\ UNCHANGED << CONV, mm, req, cid, ctx, prompt_messages, rendered, text, trace,
                  ragSeen, nRequests, thread, queue, plan, joined, consumed,
                  modelVars, calls, toggles, storeHistory, threadVars >>

\* the first next(): stream_generate's body up to thread.start(); an error
\* before the thread starts reaches sse_wrapper's except clause
GenStart ==
  /\ pc = "streaming" /\ token_gen = "created"
  /\ rendered' = apply_template(mm.system_prompt, prompt_messages)
  /\ trace' = Append(trace, "generate")
  /\ \E outcome \in {"ok", "raise"}, p \in FragPlans :
       IF outcome = "ok"
         THEN /\ thread' = "running"
              /\ plan' = p
              /\ token_gen' = "blocked"
              /\ modelCall' = ModelInvocation("stream_generate", DefaultTemperature,
                                              DefaultTopP)
              /\ UNCHANGED << resp, pc >>
         ELSE /\ token_gen' = "finished"
              /\ resp' = [resp EXCEPT !.frames = Append(@, Frame(ErrorMark \o ErrorText))]
              /\ pc' = "idle"
              /\ UNCHANGED << thread, plan, modelCall >>
  /\ UNCHANGED << CONV, mm, req, cid, ctx, prompt_messages, text, ragSeen, nRequests,
                  queue, joined, consumed, device, config_do_sample, calls, toggles,
                  storeHistory, threadVars >>

\* sse_wrapper's handling of a chunk: if not chunk: continue; else yield a frame
WrapperSkips(chunk) == ~Truthy(chunk)

\* for chunk in streamer: yield chunk -- and sse_wrapper's loop body
ConsumerGet ==
  /\ pc = "streaming" /\ token_gen = "blocked"
  /\ queue # << >>
  /\ queue' = Tail(queue)
  /\ LET item == Head(queue)
     IN  IF item = StopSignal
           THEN /\ token_gen' = "joining"
                /\ UNCHANGED << consumed, resp >>
           ELSE /\ consumed' = Append(consumed, item)
                /\ IF WrapperSkips(item)
                     THEN /\ token_gen' = "blocked"
                          /\ resp' = resp
                     ELSE /\ token_gen' = "suspended"
                          /\ resp' = [resp EXCEPT !.frames = Append(@, Frame(item))]
  /\ UNCHANGED << CONV, mm, pc, req, cid, ctx, prompt_messages, rendered, text, trace,
                  ragSeen, nRequests, thread, plan, joined, modelVars, calls,
                  toggles, storeHistory, threadVars >>

\* the response writer has sent the frame and asks for the next one
ConsumerResume ==
  /\ pc = "streaming" /\ token_gen = "suspended"
  /\ token_gen' = "blocked"
  /\ UNCHANGED << CONV, mm, requestVars, thread, queue, plan, joined, consumed,
                  modelVars, calls, toggles, storeHistory, threadVars >>

\* thread.join() returns, the generator ends, sse_wrapper yields [DONE]
GenJoin ==
  /\ pc = "streaming" /\ token_gen = "joining"
  /\ thread # "running"
  /\ joined' = TRUE
  /\ token_gen' = "finished"
  /\ resp' = [resp EXCEPT !.frames = Append(@, Frame(DoneMark))]
  /\ pc' = "idle"
  /\ UNCHANGED << CONV, mm, req, cid, ctx, prompt_messages, rendered, text, trace,
                  ragSeen, nRequests, thread, queue, plan, consumed, modelVars,
                  calls, toggles, storeHistory, threadVars >>

\* the worker: model.generate puts a fragment on the streamer
WorkerPut ==
  /\ thread = "running" /\ plan # << >>
  /\ queue' = Append(queue, Head(plan))
  /\ plan' = Tail(plan)
  /\ UNCHANGED << CONV, mm, requestVars, token_gen, thread, joined, consumed,
                  modelVars, calls, toggles, storeHistory, threadVars >>

\* the worker: model.generate calls streamer.end() and returns
WorkerEnd ==
  /\ thread = "running" /\ plan = << >>
  /\ queue' = Append(queue, StopSignal)
  /\ thread' = "done"
  /\ UNCHANGED << CONV, mm, requestVars, token_gen, plan, joined, consumed,
                  modelVars, calls, toggles, storeHistory, threadVars >>

\* the worker: model.generate raises; the thread dies and puts nothing
WorkerRaise ==
  /\ thread = "running"
  /\ thread' = "raised"
  /\ UNCHANGED << CONV, mm, requestVars, token_gen, queue, plan, joined, consumed,
                  modelVars, calls, toggles, storeHistory, threadVars >>

\* the client goes away: the response writer stops iterating and the
\* generators are closed where they are suspended (GeneratorExit at the yield)
ClientDisconnect ==
  /\ pc = "streaming" /\ token_gen \in {"created", "suspended"}
  /\ token_gen' = "closed"
  /\ pc' = "idle"
  /\ UNCHANGED << CONV, mm, req, cid, ctx, prompt_messages, rendered, text, resp,
                  trace, ragSeen, nRequests, thread, queue, plan, joined, consumed,
                  modelVars, calls, toggles, storeHistory, threadVars >>

StreamStep ==
  \/ GenStart \/ ConsumerGet \/ ConsumerResume \/ GenJoin
  \/ WorkerPut \/ WorkerEnd

Next ==
  \/ Accept \/ Rag \/ Assemble \/ Generate \/ AppendAssistant \/ Toggle
  \/ StreamRespond \/ GenStart \/ ConsumerGet \/ ConsumerResume \/ GenJoin
  \/ WorkerPut \/ WorkerEnd \/ WorkerRaise \/ ClientDisconnect

Spec == Init /\ [][Next]_vars

(***************************************************************************)
(* The retrieval step driven directly: any sequence of                     *)
(* mm.retrieve_augmentation(query) calls on the configured ModelManager.   *)
(***************************************************************************)
InitRetrieve ==
  /\ InitStore /\ InitManager /\ InitRequest /\ InitStream
  /\ device = "cpu"
  /\ config_do_sample = FALSE

RetrieveCall ==
  \E query \in UserMessages, env \in Envs :
    /\ nCalls < MaxCalls
    /\ LET out == retrieve_augmentation(RagConfigured, query, env)
       IN  /\ calls' = PySliceFrom(Append(calls, [query |-> query, out |-> out]), -2)
           /\ ctx' = out.result
    /\ nCalls' = nCalls + 1
    /\ UNCHANGED << CONV, mm, pc, req, cid, prompt_messages, rendered, text, resp,
                    trace, ragSeen, nRequests, streamVars, modelVars, toggles,
                    uaLog, lastMaxTurns, nAppends, threadVars >>

NextRetrieve == RetrieveCall

SpecRetrieve == InitRetrieve /\ [][NextRetrieve]_vars

(***************************************************************************)
(* The generation calls driven directly: generate and stream_generate with *)
(* any parameters, on any device, for a model whose generation config may  *)
(* or may not enable sampling.  Temperature and top_p are in hundredths.   *)
(***************************************************************************)
InitGen ==
  /\ InitStore /\ InitManager /\ InitRequest /\ InitStream
  /\ \E mps_available \in BOOLEAN, cuda_available \in BOOLEAN :
       device = DeviceOf(mps_available, cuda_available)
  /\ config_do_sample \in BOOLEAN

\* mm.generate(messages, max_new_tokens, temperature, top_p)
CallGenerate ==
  \E temperature \in Temperatures, top_p \in TopPs :
    /\ rendered' = apply_template(mm.system_prompt,
                     build_current_turn_prompt(mm.system_prompt, QA, NoText))
    /\ modelCall' = ModelInvocation("generate", temperature, top_p)
    /\ UNCHANGED << CONV, mm, pc, req, cid, ctx, prompt_messages, text, resp, trace,
                    ragSeen, nRequests, streamVars, device, config_do_sample,
                    calls, toggles, storeHistory, threadVars >>

\* next(mm.stream_generate(messages, max_new_tokens, temperature, top_p))
CallStreamGenerate ==
  \E temperature \in Temperatures, top_p \in TopPs :
    /\ rendered' = apply_template(mm.system_prompt,
                     build_current_turn_prompt(mm.system_prompt, QA, NoText))
    /\ modelCall' = ModelInvocation("stream_generate", temperature, top_p)
    /\ UNCHANGED << CONV, mm, pc, req, cid, ctx, prompt_messages, text, resp, trace,
                    ragSeen, nRequests, streamVars, device, config_do_sample,
                    calls, toggles, storeHistory, threadVars >>

NextGen == CallGenerate \/ CallStreamGenerate

SpecGen == InitGen /\ [][NextGen]_vars

(***************************************************************************)
(* The prompt assembler driven directly, on any stored history.            *)
(***************************************************************************)
\* longest stored history tried
MaxHistory == 4

RECURSIVE MsgLists(_)
MsgLists(n) ==
  IF n = 0 THEN { << >> }
  ELSE LET shorter == MsgLists(n - 1)
       IN  shorter \cup { Append(h, Msg(r, <<"x">>)) :
                            h \in { g \in shorter : Len(g) = n - 1 }, r \in Roles }

CtxSamples == { NoText, Render(VectorRows(<< N1 >>)) }

InitPrompt ==
  /\ InitManager /\ InitRequest /\ InitStream /\ InitThreads
  /\ \E h \in MsgLists(MaxHistory) : CONV = [c \in {"c1"} |-> h]
  /\ uaLog = [c \in Cids |-> << >>]
  /\ lastMaxTurns = [c \in Cids |-> -1]
  /\ nAppends = 0
  /\ nCalls = 0
  /\ device = "cpu"
  /\ config_do_sample = FALSE

\* build_current_turn_prompt(user_text, ctx), then apply_template on it
PromptCurrentTurn ==
  \E user_text \in UserMessages, c \in CtxSamples :
    /\ ctx' = c
    /\ prompt_messages' = build_current_turn_prompt(mm.system_prompt, user_text, c)
    /\ rendered' = apply_template(mm.system_prompt, prompt_messages')
    /\ pc' = "current_turn"
    /\ UNCHANGED << CONV, mm, req, cid, text, resp, trace, ragSeen, nRequests,
                    streamVars, modelVars, calls, toggles, storeHistory, threadVars >>

\* build_prompt_messages(get_messages(cid), ctx, max_turns), then apply_template
PromptWindowed ==
  \E c \in CtxSamples, max_turns \in (0..MaxTurnsBound) \cup {PromptMaxTurns} :
    /\ ctx' = c
    /\ prompt_messages' = build_prompt_messages(mm.system_prompt,
                            get_messages(CONV, "c1"), c, max_turns)
    /\ rendered' = apply_template(mm.system_prompt, prompt_messages')
    /\ pc' = "windowed"
    /\ UNCHANGED << CONV, mm, req, cid, text, resp, trace, ragSeen, nRequests,
                    streamVars, modelVars, calls, toggles, storeHistory, threadVars >>

\* apply_template on the stored history itself
TemplateStored ==
  /\ prompt_messages' = get_messages(CONV, "c1")
  /\ rendered' = apply_template(mm.system_prompt, prompt_messages')
  /\ pc' = "stored"
  /\ UNCHANGED << CONV, mm, req, cid, ctx, text, resp, trace, ragSeen, nRequests,
                  streamVars, modelVars, calls, toggles, storeHistory, threadVars >>

NextPrompt == PromptCurrentTurn \/ PromptWindowed \/ TemplateStored

SpecPrompt == InitPrompt /\ [][NextPrompt]_vars

(***************************************************************************)
(* The server together with direct calls of build_prompt_messages, which   *)
(* no route calls: between two requests the windowed prompt of the latest  *)
(* conversation is assembled, for any context, with all turns kept         *)
(* (max_turns = 0) or the default window.  Streams here run to their end;  *)
(* failing workers and disconnecting clients are in Spec.                  *)
(***************************************************************************)
\* build_prompt_messages(conv.get_messages(c), ctx, max_turns)
WindowedCall ==
  \E x \in CtxSamples, max_turns \in {0, PromptMaxTurns} :
    /\ pc = "idle"
    /\ ctx' = x
    /\ prompt_messages' = build_prompt_messages(mm.system_prompt,
                            get_messages(CONV, cid), x, max_turns)
    /\ UNCHANGED << CONV, mm, pc, req, cid, rendered, text, resp, trace, ragSeen, nRequests,
                    streamVars, modelVars, calls, toggles, storeHistory, threadVars >>

NextAssembly ==
  \/ Accept \/ Rag \/ Assemble \/ Generate \/ AppendAssistant \/ Toggle
  \/ StreamRespond \/ StreamStep \/ WindowedCall

SpecAssembly == Init /\ [][NextAssembly]_vars

(***************************************************************************)
(* conversations.append run by several threads on one conversation id, as  *)
(* the thread pool serving the synchronous routes runs it.  A step is one  *)
(* statement of append; `msgs` is a reference to a list object, so the     *)
(* append of line 21 is seen by every thread holding that object, and the  *)
(* assignment of line 26 puts a new object into _CONV.  The two list       *)
(* comprehensions read the object one after the other.                     *)
(***************************************************************************)
NumAppenders == 2
Appenders == 1..NumAppenders
SharedCid == "c1"

\* _CONV seen by value: every stored reference replaced by its list
Deref(heap, refs) == [c \in DOMAIN refs |-> heap[refs[c]]]

\* the conversations a run can start from
StartLists ==
  { << >>,
    << Msg("system", SysText) >>,
    << Msg("system", SysText), Msg("user", <<"x">>), Msg("assistant", <<"y">>) >> }

InitConcurrent ==
  /\ InitManager /\ InitRequest /\ InitStream
  /\ device = "cpu"
  /\ config_do_sample = FALSE
  /\ \E present \in BOOLEAN, start \in StartLists, max_turns \in {1, DefaultMaxTurns} :
       /\ present \/ start = << >>
       /\ lists = IF present THEN << start >> ELSE << >>
       /\ slot = IF present THEN [c \in {SharedCid} |-> 1] ELSE [c \in {} |-> 0]
       /\ uaLog = [c \in Cids |-> IF c = SharedCid THEN UaOf(start) ELSE << >>]
       /\ lastMaxTurns = [c \in Cids |-> IF c = SharedCid THEN max_turns ELSE -1]
       /\ th = [t \in Appenders |->
                  [pc |-> "called", conversation_id |-> SharedCid, role |-> "user",
                   content |-> DigitText(t), max_turns |-> max_turns, msgs |-> 0,
                   sys |-> << >>, ua |-> << >>]]
  /\ CONV = Deref(lists, slot)
  /\ nAppends = 0
  /\ nCalls = 0

\* line 20: msgs = _CONV.setdefault(conversation_id, [])
Setdefault(t) ==
  /\ th[t].pc = "called"
  /\ \E role \in Roles :
       LET c == th[t].conversation_id
           known == c \in DOMAIN slot
           obj == IF known THEN slot[c] ELSE Len(lists) + 1
       IN  /\ lists' = IF known THEN lists ELSE Append(lists, << >>)
           /\ slot' = IF known THEN slot ELSE DictSet(slot, c, obj)
           /\ th' = [th EXCEPT ![t].pc = "line21", ![t].role = role, ![t].msgs = obj]
  /\ CONV' = Deref(lists', slot')
  /\ UNCHANGED << mm, requestVars, streamVars, modelVars, calls, toggles, storeHistory >>

\* line 21: msgs.append({"role": role, "content": content})
ListAppend(t) ==
  /\ th[t].pc = "line21"
  /\ LET m == Msg(th[t].role, th[t].content)
     IN  /\ lists' = [lists EXCEPT ![th[t].msgs] = Append(@, m)]
         /\ uaLog' = [uaLog EXCEPT ![th[t].conversation_id] =
                        IF m.role = "system" THEN @ ELSE Append(@, m)]
  /\ th' = [th EXCEPT ![t].pc = "line23"]
  /\ nAppends' = nAppends + 1
  /\ CONV' = Deref(lists', slot)
  /\ UNCHANGED << mm, requestVars, streamVars, modelVars, calls, toggles, slot,
                  lastMaxTurns, nCalls >>

\* line 23: sys = [m for m in msgs if m["role"] == "system"]
ReadSys(t) ==
  /\ th[t].pc = "line23"
  /\ th' = [th EXCEPT ![t].pc = "line24", ![t].sys = SysOf(lists[th[t].msgs])]
  /\ UNCHANGED << CONV, mm, requestVars, streamVars, modelVars, calls, toggles,
                  storeHistory, lists, slot >>

\* line 24: ua = [m for m in msgs if m["role"] in ("user", "assistant")]
ReadUa(t) ==
  /\ th[t].pc = "line24"
  /\ th' = [th EXCEPT ![t].pc = "line25", ![t].ua = UaOf(lists[th[t].msgs])]
  /\ UNCHANGED << CONV, mm, requestVars, streamVars, modelVars, calls, toggles,
                  storeHistory, lists, slot >>

\* lines 25-26: trimmed = sys[:1] + ua[-max_turns*2:]; _CONV[conversation_id] = trimmed
WriteTrimmed(t) ==
  /\ th[t].pc = "line25"
  /\ LET trimmed == PySliceTo(th[t].sys, 1) \o LastTurns(th[t].ua, th[t].max_turns)
     IN  /\ lists' = Append(lists, trimmed)
         /\ slot' = DictSet(slot, th[t].conversation_id, Len(lists) + 1)
  /\ th' = [th EXCEPT ![t].pc = "returned"]
  /\ CONV' = Deref(lists', slot')
  /\ UNCHANGED << mm, requestVars, streamVars, modelVars, calls, toggles, storeHistory >>

NextConcurrent ==
  \E t \in Appenders :
    Setdefault(t) \/ ListAppend(t) \/ ReadSys(t) \/ ReadUa(t) \/ WriteTrimmed(t)

SpecConcurrent == InitConcurrent /\ [][NextConcurrent]_vars

(***************************************************************************)
(* Claims.                                                                 *)
(***************************************************************************)
Range(f) == { f[i] : i \in DOMAIN f }
Last(q) == q[Len(q)]

\* the retrieve_augmentation call of the request being handled
Retrieved == \E i \in 1..Len(trace) : trace[i] = "retrieve"
CurrentCall == Last(calls)

\* the cache key of the specification: trim, lower case, collapse whitespace
Normalize(q) == Join(PySplit(LowerText(q)), <<" ">>)

(***************************************************************************)
(* C2 -- Cache idempotence.  Two consecutive retrieve_augmentation calls   *)
(* whose queries are equal after normalization run the embedding and       *)
(* search path at most once in total, and the second returns the same      *)
(* rendered string as the first.                                           *)
(***************************************************************************)
CacheIdempotence ==
  ( /\ Len(calls) = 2
    /\ ~calls[1].out.raised /\ ~calls[2].out.raised
    /\ Normalize(calls[1].query) = Normalize(calls[2].query) )
  => /\ calls[1].out.embedRuns + calls[2].out.embedRuns <= 1
     /\ calls[2].out.result = calls[1].out.result

(***************************************************************************)
(* C3 -- Retrieval backend failure is contained.  When the embedder or the *)
(* vector query raises during retrieve_augmentation, the error is treated  *)
(* as zero rows: the keyword fallback runs, the call returns a string and  *)
(* the request does not fail with that error.                              *)
(***************************************************************************)
RetrievalFailureContained ==
  (Retrieved /\ CurrentCall.out.fault \in {"embedder", "vector"})
  => /\ CurrentCall.out.kwIssued
     /\ ~CurrentCall.out.raised
     /\ resp.status # "500"

(***************************************************************************)
(* C4 -- Fallback triggers only on empty vector results.  In every         *)
(* retrieve_augmentation call the keyword query is issued if and only if   *)
(* the vector search returned zero rows; when it returned at least one row *)
(* the keyword query is not issued and the result is rendered from the     *)
(* vector rows only.                                                       *)
(***************************************************************************)
FallbackOnlyOnEmpty ==
  \A i \in 1..Len(calls) :
    LET o == calls[i].out
    IN  /\ o.kwIssued <=> (o.vecReturned /\ o.vecRows = << >>)
        /\ (o.vecReturned /\ o.vecRows # << >>)
             => /\ ~o.raised
                /\ o.kwRows = << >>
                /\ o.result = Render(o.vecRows)

\* a call answered from vector rows, then a call answered by the fallback
FallbackWitness ==
  /\ Len(calls) = 2
  /\ calls[1].out.vecRows # << >> /\ ~calls[1].out.kwIssued
  /\ calls[2].out.vecReturned /\ calls[2].out.kwIssued /\ calls[2].out.kwRows # << >>
  /\ ctx = Render(calls[2].out.kwRows)

(***************************************************************************)
(* C5 -- Sampling safety.  generate and stream_generate invoke the model   *)
(* with sampling only when temperature > 0 and 0 < top_p < 1 and the       *)
(* device is not the low-precision accelerator (mps); for every other      *)
(* combination the model decodes greedily.                                 *)
(***************************************************************************)
SamplingSafety ==
  (modelCall.method # "none" /\ modelCall.samples)
  => /\ modelCall.kwargs.temperature > 0
     /\ 0 < modelCall.kwargs.top_p /\ modelCall.kwargs.top_p < 100
     /\ device # "mps"

(***************************************************************************)
(* C6 -- Every /chat/stream response ends with exactly one terminal event  *)
(* and nothing after it: [DONE] on normal completion, [ERROR] on failure,  *)
(* a failure of the worker included.  Data frames come in the order of the *)
(* fragments, empty fragments skipped.  "Ends" is stated as: a response in *)
(* progress can always take a step, and one that is over has its terminal  *)
(* event.                                                                  *)
(***************************************************************************)
StartsWith(t, prefix) ==
  Len(t) >= Len(prefix) /\ SubSeq(t, 1, Len(prefix)) = prefix

IsTerminal(frame) ==
  \/ frame = Frame(DoneMark)
  \/ StartsWith(frame, <<"d", "a", "t", "a", ":", " ">> \o ErrorMark)

DataFrames(frames) == SelectSeq(frames, LAMBDA f : ~IsTerminal(f))

RECURSIVE FramesOf(_)
FramesOf(chunks) ==
  IF chunks = << >> THEN << >>
  ELSE (IF Truthy(Head(chunks)) THEN << Frame(Head(chunks)) >> ELSE << >>)
       \o FramesOf(Tail(chunks))

StreamContract ==
  /\ \A i \in 1..Len(resp.frames) : IsTerminal(resp.frames[i]) => i = Len(resp.frames)
  /\ DataFrames(resp.frames) = FramesOf(consumed)
  /\ (resp.frames # << >> /\ Last(resp.frames) = Frame(DoneMark)) => thread = "done"
  /\ pc = "streaming" => ENABLED StreamStep
  /\ (req.endpoint = "stream" /\ pc = "idle" /\ resp.status = "200"
        /\ token_gen # "closed")
       => (resp.frames # << >> /\ IsTerminal(Last(resp.frames)))

(***************************************************************************)
(* C7 -- Request sequencing.  For every /chat and /chat/stream request the *)
(* steps happen in the order append user turn, retrieve, assemble prompt,  *)
(* generate, append assistant turn; once the request (or the stream) has   *)
(* completed successfully, the stored conversation ends with the user      *)
(* message followed by the assistant reply generated for the request.      *)
(***************************************************************************)
StepOrder == << "append_user", "retrieve", "assemble", "generate", "append_assistant" >>
Rank(step) == CHOOSE i \in 1..Len(StepOrder) : StepOrder[i] = step

RECURSIVE Concat(_)
Concat(chunks) == IF chunks = << >> THEN << >> ELSE Head(chunks) \o Concat(Tail(chunks))

ChatCompleted == req.endpoint = "chat" /\ pc = "idle" /\ resp.status = "200"
StreamCompleted ==
  req.endpoint = "stream" /\ resp.frames # << >> /\ Last(resp.frames) = Frame(DoneMark)

EndsWithTurn(msgs, user_text, reply) ==
  /\ Len(msgs) >= 2
  /\ msgs[Len(msgs) - 1] = Msg("user", user_text)
  /\ msgs[Len(msgs)] = Msg("assistant", reply)

RequestSequencing ==
  /\ \A i, j \in 1..Len(trace) : i < j => Rank(trace[i]) < Rank(trace[j])
  /\ ChatCompleted => EndsWithTurn(get_messages(CONV, cid), req.userMessage, resp.reply)
  /\ StreamCompleted
       => EndsWithTurn(get_messages(CONV, cid), req.userMessage, Concat(consumed))

(***************************************************************************)
(* C8 -- Prompt single-system invariant.  For any stored history, user     *)
(* text and context, the list built by build_current_turn_prompt and by    *)
(* build_prompt_messages has exactly one system message, and it is first;  *)
(* apply_template adds the default system message only when its input does *)
(* not start with a system message, so the list rendered for the model has *)
(* one leading system message.                                             *)
(***************************************************************************)
OneLeadingSystem(msgs) ==
  /\ msgs # << >>
  /\ msgs[1].role = "system"
  /\ \A i \in 2..Len(msgs) : msgs[i].role # "system"

PromptSingleSystem ==
  /\ pc \in {"current_turn", "windowed"}
       => /\ OneLeadingSystem(prompt_messages)
          /\ OneLeadingSystem(rendered)
          /\ rendered = prompt_messages
  /\ pc = "stored"
       => /\ rendered # << >> /\ rendered[1].role = "system"
          /\ (prompt_messages # << >> /\ prompt_messages[1].role = "system")
               => rendered = prompt_messages
          /\ ~(prompt_messages # << >> /\ prompt_messages[1].role = "system")
               => rendered = << Msg("system", DefaultSystemPrompt) >> \o prompt_messages

\* a windowed prompt built with context from a history that holds a system
\* message after a user message, and more turns than the window keeps
PromptWitness ==
  /\ pc = "windowed"
  /\ Truthy(ctx)
  /\ Len(get_messages(CONV, "c1")) = 4
  /\ get_messages(CONV, "c1")[2].role = "system"
  /\ Len(prompt_messages) < 1 + Len(UaOf(get_messages(CONV, "c1")))

(***************************************************************************)
(* C9 -- RAG toggle.  Retrieval is enabled by default; after /rag/toggle   *)
(* with use_rag=false every later request skips retrieve_augmentation and  *)
(* uses the empty context, until a toggle with use_rag=true; the toggle    *)
(* response reports the flag value now in force.                           *)
(***************************************************************************)
RagToggle ==
  /\ toggles # << >>
       => /\ toggles[1].rag_enabled = toggles[1].use_rag
          /\ "use_rag" \in DOMAIN mm /\ mm["use_rag"] = toggles[1].use_rag
  /\ ragSeen # << >>
       => LET seen == ragSeen[1]
              enabled == seen = << >> \/ seen[1].use_rag
          IN  /\ Retrieved <=> enabled
              /\ ~enabled => ctx = NoText
              /\ (~enabled /\ prompt_messages # << >>)
                   => prompt_messages[1].content = mm.system_prompt

\* a /chat request answered without retrieval, with the bare system prompt,
\* after a toggle to false
RagToggleOffWitness ==
  /\ ragSeen # << >> /\ ragSeen[1] # << >> /\ ~ragSeen[1][1].use_rag
  /\ ChatCompleted /\ ~Retrieved
  /\ prompt_messages[1].content = DefaultSystemPrompt

(***************************************************************************)
(* C10 -- Streaming worker join.  In stream_generate the worker thread is  *)
(* always joined once the consumer stops consuming, whether it drains the  *)
(* stream or terminates early: no execution of stream_generate is over     *)
(* with the worker started and never joined.                               *)
(***************************************************************************)
WorkerJoined ==
  (token_gen \in {"finished", "closed"} /\ thread # "none") => joined


(***************************************************************************)
(* C11 -- Fresh system message and frame.  The system message of every      *)
(* assembled prompt is the base system prompt when the context is empty    *)
(* and base + "\n\n[CONTEXT]\n" + context otherwise; mm.system_prompt      *)
(* always is the base prompt the manager was built with; and a step that   *)
(* assembles a prompt leaves the stored conversations as they were, system *)
(* messages and turns alike.                                               *)
(***************************************************************************)
ExpectedSystem(context) ==
  IF context = << >>
    THEN DefaultSystemPrompt
    ELSE DefaultSystemPrompt
           \o <<"\n", "\n", "[", "C", "O", "N", "T", "E", "X", "T", "]", "\n">>
           \o context

AssembledFresh ==
  /\ mm.system_prompt = DefaultSystemPrompt
  /\ prompt_messages # << >> =>
       /\ prompt_messages[1] = Msg("system", ExpectedSystem(ctx))
       /\ \A i \in 2..Len(prompt_messages) : prompt_messages[i].role # "system"

AssemblyStep == prompt_messages' # prompt_messages /\ prompt_messages' # << >>

FreshSystemAndFrame ==
  /\ []AssembledFresh
  /\ [][AssemblyStep => (CONV' = CONV /\ mm'.system_prompt = mm.system_prompt)]_vars

\* a windowed prompt with context, assembled after a completed /chat on a
\* conversation that stores a system message
FreshSystemWitness ==
  /\ pc = "idle" /\ nRequests > 0 /\ resp.status = "200"
  /\ ctx # NoText
  /\ Len(prompt_messages) = 3
  /\ SysOf(get_messages(CONV, cid)) = << Msg("system", SysText) >>
  /\ prompt_messages[1].content # get_messages(CONV, cid)[1].content

(***************************************************************************)
(* C12 -- Keyword fallback semantics.  When the fallback runs, the query   *)
(* is split into its words (deduplicated, order preserved) and the result  *)
(* is the items with a textual field that contains at least one of those   *)
(* words as a case-insensitive substring, ranked by the number of distinct *)
(* matching words in descending order and capped at 5: an item matching    *)
(* any word of the query is eligible, not only one matching a chosen word  *)
(* or phrase.                                                              *)
(***************************************************************************)
RECURSIVE Dedupe(_)
Dedupe(q) ==
  IF q = << >> THEN << >>
  ELSE LET front == Dedupe(SubSeq(q, 1, Len(q) - 1))
       IN  IF Last(q) \in Range(front) THEN front ELSE Append(front, Last(q))

QueryWords(query) == Dedupe(PySplit(LowerText(query)))

\* the words of the query that a textual field of the item contains
MatchingWords(n, words) ==
  { w \in Range(words) :
      \E i \in 1..4 : Fields(n)[i] # None /\ Contains(LowerText(Fields(n)[i]), w) }

MatchCount(n, words) == Cardinality(MatchingWords(n, words))

Eligible(words) == { n \in Range(DBNodes) : MatchCount(n, words) > 0 }

NodeOfRow(r) == CHOOSE n \in Range(DBNodes) : n.id = r.id

Min(a, b) == IF a <= b THEN a ELSE b

KeywordFallbackSemantics ==
  \A k \in 1..Len(calls) :
    LET o == calls[k].out
        words == QueryWords(calls[k].query)
        rows == o.kwRows
        returned == { NodeOfRow(rows[i]) : i \in 1..Len(rows) }
    IN  (o.kwIssued /\ ~o.raised) =>
          /\ Len(rows) = Min(5, Cardinality(Eligible(words)))
          /\ Cardinality(returned) = Len(rows)
          /\ returned \subseteq Eligible(words)
          /\ \A i, j \in 1..Len(rows) :
               i < j => MatchCount(NodeOfRow(rows[i]), words)
                          >= MatchCount(NodeOfRow(rows[j]), words)
          /\ \A n \in Eligible(words) \ returned, m \in returned :
               MatchCount(n, words) <= MatchCount(m, words)

(***************************************************************************)
(* C13 -- No lost update under concurrent appends.  When two or more       *)
(* append calls on the same conversation id run concurrently, their steps  *)
(* interleaved in any order, then once all calls have returned every       *)
(* appended user/assistant message that falls within the last 2*max_turns  *)
(* is present in the stored conversation exactly once.                     *)
(***************************************************************************)
Occurrences(q, m) == Cardinality({ i \in 1..Len(q) : q[i] = m })

AllReturned == \A t \in Appenders : th[t].pc = "returned"

NoLostUpdate ==
  AllReturned =>
    \A t \in Appenders :
      LET m == Msg(th[t].role, th[t].content)
          recent == LastTurns(uaLog[SharedCid], lastMaxTurns[SharedCid])
      IN  (m.role # "system" /\ m \in Range(recent))
            => Occurrences(get_messages(CONV, SharedCid), m) = 1

=========================================================================
